---------------------------- MODULE Spec2Model ----------------------------
(***************************************************************************)
(* Model of the symbol registry, the bounded price history and the refresh *)
(* cycle of the realtime stock ticker (src/app.py, class StockTicker, and  *)
(* the script body that drives it), with the validation helper of          *)
(* src/utils.py and the limits of src/config.py.                           *)
(*                                                                         *)
(* Strings are sequences of one-character strings, so that str.upper(),    *)
(* str.strip() and the symbol pattern are computed character by character. *)
(***************************************************************************)
EXTENDS Integers, Sequences, FiniteSets, TLC

VARIABLES
    symbols,        \* StockTicker.symbols: list of str
    price_history,  \* StockTicker.price_history: dict str -> deque(maxlen)
    appended,       \* ghost: per buffer, every sample appended since the deque was created
    now,            \* datetime.now(), as a counter of the samples taken
    pc,             \* position of the script run: "idle", "cycle" (inside get_all_data), "done"
    idx,            \* index of the list iterator of `for symbol in self.symbols`
    data,           \* the dict get_all_data builds, in insertion order
    warnings,       \* the st.warning diagnostics this run emitted, in order
    fetched,        \* ghost: the symbols get_stock_data was called with in this cycle
    returned,       \* the last add_symbol or remove_symbol call of this script run and its value
    snapshot,       \* ghost: self.symbols as it was when get_all_data was entered
    inflight        \* the symbol get_stock_data is waiting on the provider for: <<symbol>>, or <<>>

vars == <<symbols, price_history, appended, now, pc, idx, data, warnings, fetched, returned,
          snapshot, inflight>>

-----------------------------------------------------------------------------
(* Bounds of the model *)

\* capacity of a history deque; the source constructs deque(maxlen=100)
\* (src/app.py:73); the model runs a scaled capacity so that N > capacity
\* appends are reached
HistoryMaxLen == 2

\* the configured maximum of tracked symbols; src/config.py:32 sets 20, the
\* model runs a scaled maximum (StockTicker never reads this setting)
MAX_STOCKS_TO_TRACK == 2

\* the runs that exercise every provider response stop taking samples when
\* the clock reaches this value
MaxClock == 3

\* the runs that exercise every input symbol stop taking samples when the
\* clock reaches this value
MaxClockAllInputs == 2

\* samples taken in a run of SpecConcurrent
MaxClockConcurrent == 1

\* the largest of the small prices of the runs that exercise the quote arithmetic
MaxPrice == 6

\* the model stops adding symbols when the list holds this many
MaxSymbols == 3

-----------------------------------------------------------------------------
(* Strings *)

LowerLetters == <<"a","b","c","d","e","f","g","h","i","j","k","l","m",
                  "n","o","p","q","r","s","t","u","v","w","x","y","z">>
UpperLetters == <<"A","B","C","D","E","F","G","H","I","J","K","L","M",
                  "N","O","P","Q","R","S","T","U","V","W","X","Y","Z">>

Range(f) == {f[i] : i \in DOMAIN f}

Whitespace == {" ", "\t", "\n"}

\* what the user types into the "Add Stock Symbol" box or passes to remove
InputSymbols ==
    { <<"a","a","p","l">>,
      <<"A","A","P","L">>,
      <<" ","a","a","p","l"," ">>,
      <<"m","s","f","t">>,
      <<"G","O","O","G","L">>,
      <<"b","r","k",".","b">> }

\* the inputs of the runs that exercise every provider response
FewInputSymbols ==
    { <<"a","a","p","l">>,
      <<" ","a","a","p","l"," ">>,
      <<"M","s","f","t">> }

\* the capital of each lowercase letter
ToUpper == [c \in Range(LowerLetters) |->
               UpperLetters[CHOOSE i \in DOMAIN LowerLetters : LowerLetters[i] = c]]

UpperSet == Range(UpperLetters)

\* str.upper() on one character: a lowercase letter maps to its capital,
\* every other character is left alone
UpperChar(c) == IF c \in DOMAIN ToUpper THEN ToUpper[c] ELSE c

\* str.upper(), character by character
UpperByChar(s) == [i \in DOMAIN s |-> UpperChar(s[i])]

\* UpperByChar tabulated on the strings the runs meet: the inputs and their
\* uppercase forms
UpperTable ==
    LET typed == InputSymbols \cup FewInputSymbols
    IN  [s \in typed \cup {UpperByChar(x) : x \in typed} |-> UpperByChar(s)]

\* str.upper()
Upper(s) == IF s \in DOMAIN UpperTable THEN UpperTable[s] ELSE UpperByChar(s)

\* str.strip(): leading and trailing whitespace removed
Strip(s) ==
    LET keep == {i \in DOMAIN s : s[i] \notin Whitespace}
    IN  IF keep = {} THEN <<>>
        ELSE LET lo == CHOOSE i \in keep : \A j \in keep : i <= j
                 hi == CHOOSE i \in keep : \A j \in keep : j <= i
             IN  SubSeq(s, lo, hi)

\* re.match(VALID_SYMBOL_PATTERN, s) with the pattern ^[A-Z]{1,5}$
MatchesSymbolPattern(s) ==
    /\ Len(s) >= 1
    /\ Len(s) <= 5
    /\ \A i \in DOMAIN s : s[i] \in UpperSet

\* utils.validate_stock_symbol
validate_stock_symbol(symbol) ==
    IF symbol = <<>> THEN FALSE
    ELSE MatchesSymbolPattern(Upper(Strip(symbol)))


-----------------------------------------------------------------------------
(* Inputs *)

\* the quotes the provider returns: close is the last Close of
\* ticker.history(period="1d", interval="1m"), previousClose is
\* info['previousClose'] (<<v>>) or <<>> when info has no such key
Quotes ==
    { [close |-> 110, previousClose |-> <<100>>],
      [close |-> 100, previousClose |-> <<0>>],
      [close |-> 100, previousClose |-> <<>>] }

\* the closes and previous closes of the runs that exercise the quote
\* arithmetic: every small price, and the pair 110, 100
Prices == (0..MaxPrice) \cup {100, 110}

QuoteResponses ==
    [kind : {"rows"}, close : Prices,
     previousClose : {<<>>} \cup {<<p>> : p \in Prices}]

\* the marker substrings the except branch looks for in str(e)
RateLimitMarkers == {"429", "Too Many Requests"}
NotFoundMarkers == {"404", "Not Found", "No data found"}

\* the inputs of the runs that interleave a second caller with a cycle
ConcurrentInputSymbols ==
    { <<"a","a","p","l">>,
      <<"m","s","f","t">>,
      <<"G","O","O","G","L">> }

\* str(e) of an exception raised by the provider, as the set of marker
\* substrings it contains
ErrorMessages ==
    { {"429", "Too Many Requests"},
      {"404", "Not Found"},
      {"No data found"},
      {"429", "404"},
      {} }

\* what yf.Ticker(symbol).info / .history(...) can do: raise, return no
\* rows, or return rows
RowsResponses ==
    {[kind |-> "rows", close |-> q.close, previousClose |-> q.previousClose] :
        q \in Quotes}

ProviderResponses ==
    [kind : {"raised"}, msg : ErrorMessages]
    \cup {[kind |-> "empty"]}
    \cup RowsResponses

\* the responses of the runs that interleave a second caller with a cycle
OneResponseOfEachKind ==
    { [kind |-> "raised", msg |-> {"404", "Not Found"}],
      [kind |-> "empty"],
      [kind |-> "rows", close |-> 110, previousClose |-> <<100>>] }

-----------------------------------------------------------------------------
(* Containers *)

\* x in list
ListContains(list, x) == \E i \in DOMAIN list : list[i] = x

\* list.remove(x): drops the first item equal to x
ListRemove(list, x) ==
    LET i == CHOOSE k \in DOMAIN list :
                 list[k] = x /\ \A j \in 1..(k - 1) : list[j] # x
    IN  SubSeq(list, 1, i - 1) \o SubSeq(list, i + 1, Len(list))

\* d[k] = v on a dict
DictSet(d, k, v) == [x \in DOMAIN d \cup {k} |-> IF x = k THEN v ELSE d[x]]

\* del d[k]
DictDel(d, k) == [x \in DOMAIN d \ {k} |-> d[x]]

\* a plain list in place of the deque: nothing is ever discarded
DequeAppend_unbounded(q, x) == Append(q, x)

\* deque(maxlen=...).append(x): when the deque is full the item at the left
\* end is discarded
DequeAppend(q, x) ==
    IF Len(q) >= HistoryMaxLen
    THEN Append(SubSeq(q, Len(q) - HistoryMaxLen + 2, Len(q)), x)
    ELSE Append(q, x)

\* the keys of the dict get_all_data builds, in insertion order
DataKeys == [i \in DOMAIN data |-> data[i].symbol]

\* data[symbol] = stock_data: a new key goes last, an existing key keeps its place
DataSet(d, rec) ==
    IF \E i \in DOMAIN d : d[i].symbol = rec.symbol
    THEN [i \in DOMAIN d |-> IF d[i].symbol = rec.symbol THEN rec ELSE d[i]]
    ELSE Append(d, rec)

-----------------------------------------------------------------------------
(* StockTicker *)

\* no registry call was made yet in this script run
NoCall == [call |-> "none", value |-> "None"]

Init ==
    /\ symbols = <<>>
    /\ price_history = <<>>
    /\ appended = <<>>
    /\ now = 0
    /\ pc = "idle"
    /\ idx = 1
    /\ data = <<>>
    /\ warnings = <<>>
    /\ fetched = <<>>
    /\ returned = NoCall
    /\ snapshot = <<>>
    /\ inflight = <<>>

\* symbol.upper() in [s.upper() for s in self.symbols]
IsTracked(symbol) == ListContains([i \in DOMAIN symbols |-> Upper(symbols[i])], Upper(symbol))

\* add_symbol storing the symbol as typed: self.symbols.append(symbol)
add_symbol_as_typed(symbol) ==
    /\ IF ~IsTracked(symbol)
       THEN /\ symbols' = Append(symbols, symbol)
            /\ price_history' = DictSet(price_history, symbol, <<>>)
            /\ appended' = DictSet(appended, symbol, <<>>)
            /\ returned' = [call |-> "add_symbol", value |-> "True"]
       ELSE /\ UNCHANGED <<symbols, price_history, appended>>
            /\ returned' = [call |-> "add_symbol", value |-> "False"]
    /\ UNCHANGED <<now, pc, idx, data, warnings, fetched, snapshot, inflight>>

\* add_symbol resetting the buffer before the membership test
add_symbol_resets_history(symbol) ==
    /\ price_history' = DictSet(price_history, Upper(symbol), <<>>)
    /\ appended' = DictSet(appended, Upper(symbol), <<>>)
    /\ IF ~IsTracked(symbol)
       THEN /\ symbols' = Append(symbols, Upper(symbol))
            /\ returned' = [call |-> "add_symbol", value |-> "True"]
       ELSE /\ UNCHANGED symbols
            /\ returned' = [call |-> "add_symbol", value |-> "False"]
    /\ UNCHANGED <<now, pc, idx, data, warnings, fetched, snapshot, inflight>>

\* add_symbol without the `self.price_history[...] = deque(maxlen=100)`
add_symbol_without_buffer(symbol) ==
    /\ IF ~IsTracked(symbol)
       THEN /\ symbols' = Append(symbols, Upper(symbol))
            /\ returned' = [call |-> "add_symbol", value |-> "True"]
       ELSE /\ UNCHANGED symbols
            /\ returned' = [call |-> "add_symbol", value |-> "False"]
    /\ UNCHANGED <<price_history, appended, now, pc, idx, data, warnings, fetched,
                   snapshot, inflight>>

\* StockTicker.add_symbol
add_symbol(symbol) ==
    /\ IF ~IsTracked(symbol)
       THEN /\ symbols' = Append(symbols, Upper(symbol))
            /\ price_history' = DictSet(price_history, Upper(symbol), <<>>)
            /\ appended' = DictSet(appended, Upper(symbol), <<>>)
            /\ returned' = [call |-> "add_symbol", value |-> "True"]
       ELSE /\ UNCHANGED <<symbols, price_history, appended>>
            /\ returned' = [call |-> "add_symbol", value |-> "False"]
    /\ UNCHANGED <<now, pc, idx, data, warnings, fetched, snapshot, inflight>>

\* remove_symbol without the `del self.price_history[...]`
remove_symbol_keeps_history(symbol) ==
    /\ IF IsTracked(symbol)
       THEN /\ ListContains(symbols, Upper(symbol))
            /\ symbols' = ListRemove(symbols, Upper(symbol))
            /\ returned' = [call |-> "remove_symbol", value |-> "True"]
       ELSE /\ UNCHANGED symbols
            /\ returned' = [call |-> "remove_symbol", value |-> "False"]
    /\ UNCHANGED <<price_history, appended, now, pc, idx, data, warnings, fetched,
                   snapshot, inflight>>

\* StockTicker.remove_symbol
remove_symbol(symbol) ==
    /\ IF IsTracked(symbol)
       THEN /\ ListContains(symbols, Upper(symbol))   \* list.remove raises ValueError otherwise
            /\ symbols' = ListRemove(symbols, Upper(symbol))
            /\ IF Upper(symbol) \in DOMAIN price_history
               THEN /\ price_history' = DictDel(price_history, Upper(symbol))
                    /\ appended' = DictDel(appended, Upper(symbol))
               ELSE UNCHANGED <<price_history, appended>>
            /\ returned' = [call |-> "remove_symbol", value |-> "True"]
       ELSE /\ UNCHANGED <<symbols, price_history, appended>>
            /\ returned' = [call |-> "remove_symbol", value |-> "False"]
    /\ UNCHANGED <<now, pc, idx, data, warnings, fetched, snapshot, inflight>>

\* the classification of the except branch of get_stock_data
Classify(msg) ==
    IF msg \cap RateLimitMarkers # {} THEN "rate_limit"
    ELSE IF msg \cap NotFoundMarkers # {} THEN "not_found"
    ELSE "error"

\* Prices are whole numbers of the smallest currency unit and a quotient is
\* the exact fraction num/den in lowest terms with den > 0; rounding to the
\* nearest float is not modelled.
Abs(x) == IF x < 0 THEN -x ELSE x

RECURSIVE GCD(_, _)
GCD(a, b) == IF b = 0 THEN a ELSE GCD(b, a % b)

Zero == [num |-> 0, den |-> 1]

\* the value den = 0 stands for the ZeroDivisionError of a division by zero
ZeroDivisionError == [num |-> 0, den |-> 0]

\* n / d
Divide(n, d) ==
    IF d = 0 THEN ZeroDivisionError
    ELSE LET g == GCD(Abs(n), Abs(d))
             sign == IF d < 0 THEN -1 ELSE 1
         IN  [num |-> (sign * n) \div g, den |-> (sign * d) \div g]

\* q * k
Times(q, k) == IF q.den = 0 THEN q ELSE Divide(q.num * k, q.den)

\* utils.calculate_percentage_change
calculate_percentage_change(current, previous) ==
    IF previous = 0 THEN Zero
    ELSE LET q == Divide(current - previous, previous)
         IN  \* except (ValueError, TypeError, ZeroDivisionError): return 0.0
             IF q = ZeroDivisionError THEN Zero ELSE Times(q, 100)

\* the quote computation without its `if previous_close else 0`
QuoteRecord_unguarded(symbol, resp) ==
    LET current_price == resp.close
        previous_close == IF resp.previousClose = <<>>
                          THEN current_price ELSE resp.previousClose[1]
        change == current_price - previous_close
    IN  [symbol |-> symbol,
         current_price |-> current_price,
         previous_close |-> previous_close,
         change |-> change,
         change_percent |-> Times(Divide(change, previous_close), 100)]

\* the record get_stock_data returns for a response with rows (the fields
\* copied from info for display only are left out)
QuoteRecord(symbol, resp) ==
    LET current_price == resp.close
        \* info.get('previousClose', current_price)
        previous_close == IF resp.previousClose = <<>>
                          THEN current_price ELSE resp.previousClose[1]
        change == current_price - previous_close
    IN  [symbol |-> symbol,
         current_price |-> current_price,
         previous_close |-> previous_close,
         change |-> change,
         \* (change / previous_close) * 100 if previous_close else 0
         change_percent |-> IF previous_close # 0
                            THEN Times(Divide(change, previous_close), 100)
                            ELSE Zero]

\* get_stock_data appending the sample before it asks the provider, so that
\* a failed fetch leaves a sample behind
get_stock_data_sample_first(symbol, resp) ==
    IF resp.kind = "raised"
    THEN [result |-> <<>>,
          warn |-> <<[symbol |-> symbol, kind |-> Classify(resp.msg)]>>,
          sample |-> <<[timestamp |-> now, price |-> 0]>>]
    ELSE IF resp.kind = "empty"
    THEN [result |-> <<>>, warn |-> <<>>, sample |-> <<>>]
    ELSE [result |-> <<QuoteRecord(symbol, resp)>>,
          warn |-> <<>>,
          sample |-> <<[timestamp |-> now, price |-> resp.close]>>]

\* StockTicker.get_stock_data(symbol) against the provider response resp.
\* result: the value returned, <<>> for None and <<record>> otherwise;
\* warn: the st.warning emitted, if any; sample: the sample appended to
\* price_history[symbol], if any
get_stock_data(symbol, resp) ==
    IF resp.kind = "raised"
    THEN [result |-> <<>>,
          warn |-> <<[symbol |-> symbol, kind |-> Classify(resp.msg)]>>,
          sample |-> <<>>]
    ELSE IF resp.kind = "empty"
    THEN \* `if not hist.empty` is false: the function falls off its end
         [result |-> <<>>, warn |-> <<>>, sample |-> <<>>]
    ELSE IF symbol \notin DOMAIN price_history
    THEN \* self.price_history[symbol] raises KeyError; str(e) is the quoted key
         [result |-> <<>>,
          warn |-> <<[symbol |-> symbol, kind |-> "error"]>>,
          sample |-> <<>>]
    ELSE [result |-> <<QuoteRecord(symbol, resp)>>,
          warn |-> <<>>,
          sample |-> <<[timestamp |-> now, price |-> resp.close]>>]

\* the script reaches `current_data = ticker.get_all_data()`: data = {} and
\* the for loop takes an iterator on self.symbols
get_all_data_begin ==
    /\ pc = "idle"
    /\ symbols # <<>>           \* the else branch of `if not ticker.symbols`
    /\ pc' = "cycle"
    /\ idx' = 1
    /\ data' = <<>>
    /\ warnings' = <<>>
    /\ fetched' = <<>>
    /\ returned' = NoCall
    /\ snapshot' = symbols
    /\ UNCHANGED <<symbols, price_history, appended, now, inflight>>

\* the loop of get_all_data giving up at the first symbol without a record
get_all_data_step_abort(resp) ==
    /\ pc = "cycle"
    /\ inflight = <<>>
    /\ idx <= Len(symbols)
    /\ LET symbol == symbols[idx]
           r == get_stock_data(symbol, resp)
       IN  /\ IF r.sample # <<>>
              THEN /\ price_history' = [price_history EXCEPT
                                          ![symbol] = DequeAppend(@, r.sample[1])]
                   /\ appended' = [appended EXCEPT ![symbol] = Append(@, r.sample[1])]
                   /\ now' = now + 1
              ELSE UNCHANGED <<price_history, appended, now>>
           /\ warnings' = warnings \o r.warn
           /\ data' = IF r.result # <<>> THEN DataSet(data, r.result[1]) ELSE data
           /\ fetched' = Append(fetched, [symbol |-> symbol, kind |-> resp.kind])
           /\ idx' = IF r.result # <<>> THEN idx + 1 ELSE Len(symbols) + 1
    /\ UNCHANGED <<symbols, pc, returned, snapshot, inflight>>

\* one iteration of `for symbol in self.symbols` in get_all_data
get_all_data_step(resp) ==
    /\ pc = "cycle"
    /\ inflight = <<>>
    /\ idx <= Len(symbols)
    /\ LET symbol == symbols[idx]
           r == get_stock_data(symbol, resp)
       IN  /\ IF r.sample # <<>>
              THEN /\ price_history' = [price_history EXCEPT
                                          ![symbol] = DequeAppend(@, r.sample[1])]
                   /\ appended' = [appended EXCEPT ![symbol] = Append(@, r.sample[1])]
                   /\ now' = now + 1
              ELSE UNCHANGED <<price_history, appended, now>>
           /\ warnings' = warnings \o r.warn
           /\ data' = IF r.result # <<>> THEN DataSet(data, r.result[1]) ELSE data
           /\ fetched' = Append(fetched, [symbol |-> symbol, kind |-> resp.kind])
    /\ idx' = idx + 1
    /\ UNCHANGED <<symbols, pc, returned, snapshot, inflight>>

\* the iterator is exhausted: `return data`
get_all_data_return ==
    /\ pc = "cycle"
    /\ idx > Len(symbols)
    /\ inflight = <<>>
    /\ pc' = "done"
    /\ UNCHANGED <<symbols, price_history, appended, now, idx, data, warnings, fetched, returned,
                   snapshot, inflight>>

\* the script run renders current_data and ends; the next run starts afresh
script_end ==
    /\ pc = "done"
    /\ pc' = "idle"
    /\ idx' = 1
    /\ data' = <<>>
    /\ warnings' = <<>>
    /\ fetched' = <<>>
    /\ snapshot' = <<>>
    /\ UNCHANGED <<symbols, price_history, appended, now, returned, inflight>>

\* the "Add Stock" button: `if new_symbol: ticker.add_symbol(new_symbol)`
AddStock(inputs) ==
    \E symbol \in inputs :
        /\ pc = "idle"
        /\ IsTracked(symbol) \/ Len(symbols) < MaxSymbols
        /\ add_symbol(symbol)

\* a "Remove" button, or a direct call of remove_symbol
RemoveStock(inputs) ==
    \E symbol \in inputs :
        /\ pc = "idle"
        /\ remove_symbol(symbol)

\* a script run that reaches the main content area
Refresh(responses, maxclock) ==
    \/ get_all_data_begin
    \/ \E resp \in responses :
           /\ resp.kind = "rows" => now < maxclock
           /\ get_all_data_step(resp)
    \/ get_all_data_return
    \/ script_end

\* every input symbol, the provider answering with rows
Next ==
    \/ AddStock(InputSymbols)
    \/ RemoveStock(InputSymbols)
    \/ Refresh(RowsResponses, MaxClockAllInputs)

Spec == Init /\ [][Next]_vars

\* few input symbols, the provider answering in every way it can
NextRefresh ==
    \/ AddStock(FewInputSymbols)
    \/ RemoveStock(FewInputSymbols)
    \/ Refresh(ProviderResponses, MaxClock)

SpecRefresh == Init /\ [][NextRefresh]_vars

\* one symbol, the provider answering with every pair of prices
NextQuote ==
    \/ AddStock({<<"a","a","p","l">>})
    \/ Refresh(QuoteResponses, MaxClockAllInputs)

SpecQuote == Init /\ [][NextQuote]_vars

-----------------------------------------------------------------------------
(* get_all_data sharing the StockTicker with a second caller.  Control
   changes hands only where get_stock_data waits for the provider
   (ticker.info, ticker.history); add_symbol and remove_symbol make no
   provider call and run to their end *)

\* the for loop of get_all_data takes the next symbol from its iterator on
\* self.symbols and get_stock_data(symbol) asks the provider
get_all_data_next ==
    /\ pc = "cycle"
    /\ inflight = <<>>
    /\ idx <= Len(symbols)
    /\ inflight' = <<symbols[idx]>>
    /\ idx' = idx + 1
    /\ UNCHANGED <<symbols, price_history, appended, now, pc, data, warnings, fetched,
                   returned, snapshot>>

\* price_history as a defaultdict: the append for a symbol without a buffer
\* creates the buffer
get_stock_data_finish_setdefault(resp) ==
    /\ pc = "cycle"
    /\ inflight # <<>>
    /\ LET symbol == inflight[1]
           sample == [timestamp |-> now, price |-> resp.close]
           r == get_stock_data(symbol, resp)
       IN  /\ IF resp.kind = "rows" /\ symbol \notin DOMAIN price_history
              THEN /\ price_history' = DictSet(price_history, symbol, <<sample>>)
                   /\ appended' = DictSet(appended, symbol, <<sample>>)
                   /\ now' = now + 1
              ELSE IF r.sample # <<>>
              THEN /\ price_history' = [price_history EXCEPT
                                          ![symbol] = DequeAppend(@, r.sample[1])]
                   /\ appended' = [appended EXCEPT ![symbol] = Append(@, r.sample[1])]
                   /\ now' = now + 1
              ELSE UNCHANGED <<price_history, appended, now>>
           /\ warnings' = warnings \o r.warn
           /\ data' = IF r.result # <<>> THEN DataSet(data, r.result[1]) ELSE data
           /\ fetched' = Append(fetched, [symbol |-> symbol, kind |-> resp.kind])
    /\ inflight' = <<>>
    /\ UNCHANGED <<symbols, pc, idx, returned, snapshot>>

\* the provider answers with resp: the rest of get_stock_data, and of the
\* loop body of get_all_data
get_stock_data_finish(resp) ==
    /\ pc = "cycle"
    /\ inflight # <<>>
    /\ LET symbol == inflight[1]
           r == get_stock_data(symbol, resp)
       IN  /\ IF r.sample # <<>>
              THEN /\ price_history' = [price_history EXCEPT
                                          ![symbol] = DequeAppend(@, r.sample[1])]
                   /\ appended' = [appended EXCEPT ![symbol] = Append(@, r.sample[1])]
                   /\ now' = now + 1
              ELSE UNCHANGED <<price_history, appended, now>>
           /\ warnings' = warnings \o r.warn
           /\ data' = IF r.result # <<>> THEN DataSet(data, r.result[1]) ELSE data
           /\ fetched' = Append(fetched, [symbol |-> symbol, kind |-> resp.kind])
    /\ inflight' = <<>>
    /\ UNCHANGED <<symbols, pc, idx, returned, snapshot>>

\* add_symbol called while a fetch is waiting for the provider
AddStockDuringFetch(inputs) ==
    \E symbol \in inputs :
        /\ inflight # <<>>
        /\ IsTracked(symbol) \/ Len(symbols) < MaxSymbols
        /\ add_symbol(symbol)

\* remove_symbol called while a fetch is waiting for the provider
RemoveStockDuringFetch(inputs) ==
    \E symbol \in inputs :
        /\ inflight # <<>>
        /\ remove_symbol(symbol)

\* a script run that reaches the main content area, its fetches interleaved
\* with the calls of the second caller
RefreshConcurrent(responses, maxclock) ==
    \/ get_all_data_begin
    \/ get_all_data_next
    \/ \E resp \in responses :
           \* a sample is taken only while the clock is below maxclock
           /\ (resp.kind = "rows" /\ inflight # <<>> /\ inflight[1] \in DOMAIN price_history)
                 => now < maxclock
           /\ get_stock_data_finish(resp)
    \/ get_all_data_return
    \/ script_end

\* three symbols and one provider response of each kind
NextConcurrent ==
    \/ AddStock(ConcurrentInputSymbols)
    \/ RemoveStock(ConcurrentInputSymbols)
    \/ AddStockDuringFetch(ConcurrentInputSymbols)
    \/ RemoveStockDuringFetch(ConcurrentInputSymbols)
    \/ RefreshConcurrent(OneResponseOfEachKind, MaxClockConcurrent)

SpecConcurrent == Init /\ [][NextConcurrent]_vars

-----------------------------------------------------------------------------
(* Properties of the symbol registry *)

AllInputSymbols == InputSymbols \cup FewInputSymbols \cup ConcurrentInputSymbols

\* symbol is tracked when casing is ignored
TrackedAnyCasing(symbol) == \E i \in DOMAIN symbols : Upper(symbols[i]) = Upper(symbol)

\* the number of entries of list equal to x
Count(list, x) == Cardinality({i \in DOMAIN list : list[i] = x})

\* the canonical form of an input: trimmed and in capitals
Canonical(symbol) == Upper(Strip(symbol))

AAPL == <<"A","A","P","L">>

\* C1: after any sequence of add and remove calls, no two entries of the
\* tracked list are equal when casing is ignored, and every entry is in
\* uppercase form.
C1_UniqueUppercase ==
    /\ \A i, j \in DOMAIN symbols :
           i # j => Upper(symbols[i]) # Upper(symbols[j])
    /\ \A i \in DOMAIN symbols : symbols[i] = Upper(symbols[i])

\* a symbol was removed from a list that held three, one of them AAPL typed
\* in some casing
C1_Witness ==
    /\ returned = [call |-> "remove_symbol", value |-> "True"]
    /\ Len(symbols) = 2
    /\ ListContains(symbols, AAPL)

\* C2: the number of tracked symbols never exceeds the configured maximum.
C2_AtMostMax == Len(symbols) <= MAX_STOCKS_TO_TRACK

\* C3: an add whose input does not match the symbol pattern after trimming
\* and uppercasing changes neither the tracked list nor any history buffer.
C3_InvalidAddMutatesNothing ==
    [][\A s \in AllInputSymbols :
          (add_symbol(s) /\ ~validate_stock_symbol(s))
              => UNCHANGED <<symbols, price_history>>]_vars

\* C4: after add(s) of a valid symbol s, in any casing and with any
\* surrounding whitespace, the tracked list holds the canonical form of s
\* exactly once, and no two entries have the same canonical form.
C4_CanonicalOnce ==
    [][\A s \in AllInputSymbols :
          (add_symbol(s) /\ validate_stock_symbol(s))
              => /\ Count(symbols', Canonical(s)) = 1
                 /\ \A i, j \in DOMAIN symbols' :
                        i # j => Canonical(symbols'[i]) # Canonical(symbols'[j])]_vars

\* C5: add of a symbol that is already tracked, in any casing, returns false
\* and leaves the tracked list (entries and order) and every history buffer,
\* that symbol's included, as they were.
C5_DuplicateAddChangesNothing ==
    [][returned'.call = "add_symbol" =>
          \A s \in AllInputSymbols :
              (TrackedAnyCasing(s) /\ add_symbol(s))
                  => /\ returned'.value = "False"
                     /\ symbols' = symbols
                     /\ price_history' = price_history]_vars

\* an add was rejected while a tracked symbol had samples in its buffer
C5_Witness ==
    /\ returned = [call |-> "add_symbol", value |-> "False"]
    /\ \A k \in DOMAIN price_history : price_history[k] # <<>>
    /\ Len(symbols) >= 2

\* list without the entries equal to symbol when casing is ignored, in order
WithoutSymbol(list, symbol) ==
    LET Other(x) == Upper(x) # Upper(symbol)
    IN  SelectSeq(list, Other)

\* C6: remove of a tracked symbol, in any casing, returns true, deletes
\* exactly that symbol from the tracked list, the others keeping their
\* order, and discards its history buffer (the other buffers are kept), so
\* that a later add of the symbol starts from an empty buffer; remove of a
\* symbol that is not tracked returns false and changes nothing.
C6_Remove ==
    [][\A s \in AllInputSymbols :
          /\ (returned'.call = "remove_symbol" /\ remove_symbol(s))
                => IF TrackedAnyCasing(s)
                   THEN /\ returned'.value = "True"
                        /\ symbols' = WithoutSymbol(symbols, s)
                        /\ Len(symbols') = Len(symbols) - 1
                        /\ DOMAIN price_history' = DOMAIN price_history \ {Upper(s)}
                        /\ \A k \in DOMAIN price_history' :
                               price_history'[k] = price_history[k]
                   ELSE /\ returned'.value = "False"
                        /\ UNCHANGED <<symbols, price_history>>
          /\ (returned'.call = "add_symbol" /\ ~TrackedAnyCasing(s) /\ add_symbol(s))
                => /\ Upper(s) \notin DOMAIN price_history
                   /\ price_history'[Upper(s)] = <<>>]_vars

\* a symbol was removed from between two others after samples were taken,
\* and every sample taken so far went with a removed symbol
C6_Witness ==
    /\ returned = [call |-> "remove_symbol", value |-> "True"]
    /\ Len(symbols) = 2
    /\ now >= 1
    /\ \A k \in DOMAIN price_history : price_history[k] = <<>>

-----------------------------------------------------------------------------
(* Properties of the history buffers *)

\* the last n items of q, oldest first
LastN(q, n) == IF Len(q) <= n THEN q ELSE SubSeq(q, Len(q) - n + 1, Len(q))

\* C7: a history buffer never holds more than its capacity, and it holds
\* exactly the last `capacity` samples appended to it, oldest first.
C7_LastCapacitySamples ==
    \A k \in DOMAIN price_history :
        /\ Len(price_history[k]) <= HistoryMaxLen
        /\ price_history[k] = LastN(appended[k], HistoryMaxLen)

\* more samples than the capacity were appended to one buffer
C7_Witness ==
    \E k \in DOMAIN price_history :
        /\ Len(appended[k]) > HistoryMaxLen
        /\ Len(price_history[k]) = HistoryMaxLen

-----------------------------------------------------------------------------
(* Properties of the refresh cycle *)

\* the symbols get_stock_data was called with in this cycle, in call order
FetchedSymbols == [i \in DOMAIN fetched |-> fetched[i].symbol]

\* the symbols whose fetch succeeded in this cycle, in call order
SucceededSymbols ==
    LET Succeeded(f) == f.kind = "rows"
        ok == SelectSeq(fetched, Succeeded)
    IN  [i \in DOMAIN ok |-> ok[i].symbol]

\* C8: a refresh cycle fetches every tracked symbol, in list order, whatever
\* the outcome of the earlier fetches, and the mapping it returns holds
\* exactly the symbols whose fetch succeeded, in tracked-list order.
C8_CycleCoversEverySymbol ==
    /\ pc \in {"cycle", "done"} =>
          /\ FetchedSymbols = SubSeq(symbols, 1, Len(fetched))
          /\ DataKeys = SucceededSymbols
    /\ pc = "done" => FetchedSymbols = symbols

\* a cycle over three symbols ended, the first fetch having raised and the
\* next two having succeeded
C8_Witness ==
    /\ pc = "done"
    /\ Len(symbols) = 3
    /\ fetched[1].kind = "raised"
    /\ fetched[2].kind = "rows"
    /\ fetched[3].kind = "rows"
    /\ Len(data) = 2

HasRecord(symbol) == \E i \in DOMAIN data : data[i].symbol = symbol

HasDiagnostic(symbol) == \E i \in DOMAIN warnings : warnings[i].symbol = symbol

\* C9: every symbol processed in a refresh cycle has either a record in the
\* mapping or a diagnostic naming it, never neither and never both.
C9_RecordOrDiagnostic ==
    \A i \in DOMAIN fetched :
        HasRecord(fetched[i].symbol) # HasDiagnostic(fetched[i].symbol)

-----------------------------------------------------------------------------
(* Properties of a refresh cycle sharing the registry *)

MSFT == <<"M","S","F","T">>

\* C11: the symbols a refresh cycle fetches are the tracked list as it was
\* when the cycle started: an add or a remove interleaved with the cycle
\* neither adds a symbol to the cycle, nor drops one, nor makes it skip one.
C11_CycleFetchesSnapshot ==
    /\ pc \in {"cycle", "done"} =>
          FetchedSymbols = SubSeq(snapshot, 1, Len(fetched))
    /\ pc = "done" => FetchedSymbols = snapshot

\* C12: the append of a fetch whose symbol is not tracked any more (removed
\* while the fetch was waiting for the provider) is a no-op: the fault is
\* handled and the cycle goes on, no history buffer is created, and the
\* tracked list and every buffer stay as they were.
C12_AppendForUntrackedIsNoOp ==
    [][(/\ inflight # <<>>
        /\ Len(fetched') = Len(fetched) + 1
        /\ ~ListContains(symbols, inflight[1]))
          => /\ pc' = "cycle"
             /\ DOMAIN price_history' = DOMAIN price_history
             /\ inflight[1] \notin DOMAIN price_history'
             /\ symbols' = symbols
             /\ price_history' = price_history
             /\ appended' = appended
             /\ data' = data]_vars

\* the provider answered with rows for AAPL after AAPL was removed: the
\* KeyError became a diagnostic, AAPL has no buffer and no record, and the
\* buffer of MSFT still holds the sample of an earlier cycle
C12_Witness ==
    /\ pc = "cycle"
    /\ inflight = <<>>
    /\ fetched = <<[symbol |-> AAPL, kind |-> "rows"]>>
    /\ warnings = <<[symbol |-> AAPL, kind |-> "error"]>>
    /\ data = <<>>
    /\ symbols = <<MSFT>>
    /\ DOMAIN price_history = {MSFT}
    /\ Len(price_history[MSFT]) = 1

-----------------------------------------------------------------------------
(* Properties of the quote arithmetic *)

\* C13: the record of every successful fetch has change = current_price -
\* previous_close and change_percent = change / previous_close * 100; when
\* previous_close is 0, change_percent is 0 and no division fault occurs;
\* current 110 and previous 100 give 10; and change_percent is what
\* calculate_percentage_change gives for the same pair of prices.
C13_ChangePercent ==
    \A i \in DOMAIN data :
        LET r == data[i]
        IN  /\ r.change = r.current_price - r.previous_close
            /\ r.change_percent.den > 0
            /\ r.previous_close = 0 => r.change_percent = Zero
            /\ r.previous_close # 0 =>
                   r.change_percent.num * r.previous_close
                       = 100 * r.change * r.change_percent.den
            /\ (r.current_price = 110 /\ r.previous_close = 100) =>
                   r.change_percent = [num |-> 10, den |-> 1]
            /\ r.change_percent
                   = calculate_percentage_change(r.current_price, r.previous_close)

\* a cycle emitted the record of AAPL at 110 after a previous close of 100,
\* the second sample of AAPL
C13_Witness ==
    /\ pc = "done"
    /\ Len(data) = 1
    /\ data[1].current_price = 110
    /\ data[1].previous_close = 100
    /\ data[1].change = 10
    /\ data[1].change_percent = [num |-> 10, den |-> 1]
    /\ Len(appended[AAPL]) = 2

-----------------------------------------------------------------------------
(* Properties of the history store *)

\* s is a prefix of t
IsPrefix(s, t) == Len(s) <= Len(t) /\ s = SubSeq(t, 1, Len(s))

\* C14: the symbols with a history buffer are exactly the tracked symbols:
\* the buffer of a symbol is created empty when the symbol is added and
\* stays, losing none of what was appended to it, until the symbol is
\* removed; and a successful fetch for a tracked symbol appends exactly one
\* sample to the buffer of that symbol and leaves every other buffer as it was.
C14_BufferPerTrackedSymbol ==
    [][/\ DOMAIN price_history = Range(symbols)
       /\ DOMAIN price_history' = Range(symbols')
       /\ \A s \in Range(symbols') \ Range(symbols) : price_history'[s] = <<>>
       /\ \A s \in Range(symbols') \cap Range(symbols) :
              /\ s \in DOMAIN price_history'
              /\ IsPrefix(appended[s], appended'[s])
       /\ (/\ Len(fetched') = Len(fetched) + 1
           /\ fetched'[Len(fetched')].kind = "rows"
           /\ ListContains(symbols, fetched'[Len(fetched')].symbol))
             => LET symbol == fetched'[Len(fetched')].symbol
                IN  /\ Len(appended'[symbol]) = Len(appended[symbol]) + 1
                    /\ price_history'[symbol]
                           = DequeAppend(price_history[symbol],
                                         appended'[symbol][Len(appended'[symbol])])
                    /\ \A s \in DOMAIN price_history \ {symbol} :
                           /\ price_history'[s] = price_history[s]
                           /\ appended'[s] = appended[s]]_vars

\* the fetch of AAPL succeeded in a cycle over AAPL and MSFT: the buffer of
\* AAPL holds its second sample and the buffer of MSFT the one it had
C14_Witness ==
    /\ pc = "cycle"
    /\ symbols = <<AAPL, MSFT>>
    /\ DOMAIN price_history = {AAPL, MSFT}
    /\ fetched = <<[symbol |-> AAPL, kind |-> "rows"]>>
    /\ Len(price_history[AAPL]) = 2
    /\ Len(price_history[MSFT]) = 1

=============================================================================
